---- MODULE Spec2Model ----
(***************************************************************************)
(* dir-obj: an in-memory directory tree (Dir / File / Entry), its          *)
(* mutation API (add_file / add_dir), and the recursive load-from-disk and *)
(* dump-to-disk walks, modelled over a small POSIX-like filesystem.        *)
(*                                                                         *)
(* Strings (OsString names, Path values) are sequences of one-character    *)
(* strings, so that Path::join and the operating system's path resolution  *)
(* are computed rather than assumed.                                       *)
(***************************************************************************)
EXTENDS Integers, Sequences, FiniteSets, TLC

VARIABLES dir, nOk, nAdds, nDumps, fs, pre, log, dumped, ret

vars == <<dir, nOk, nAdds, nDumps, fs, pre, log, dumped, ret>>

(***************************************************************************)
(* Bounds of the exploration.                                              *)
(***************************************************************************)
\* add_file, add_dir and dump calls made in one behaviour
MaxCalls == 3

(***************************************************************************)
(* Inputs.                                                                 *)
(***************************************************************************)
SEP == "/"

\* child names handed to add_file / add_dir: two plain names, a name holding
\* a separator, the parent-directory name, the empty name, an absolute path
Names ==
    { <<"a">>, <<"b">>, <<"a", "/", "b">>, <<".", ".">>, <<>>, <<"/", "f">> }

\* the plain, single-component names among them
PlainNames == { <<"a">>, <<"b">> }

\* byte contents of a File
Contents == { <<1, 2>>, <<3>> }

(***************************************************************************)
(* io::Result                                                              *)
(***************************************************************************)
Ok == [ok |-> TRUE, kind |-> "none"]

Err(k) == [ok |-> FALSE, kind |-> k]

(***************************************************************************)
(* The data model: File, Dir, Entry.                                       *)
(***************************************************************************)
\* File::new
FileNew(bytes) == [bytes |-> bytes]

\* HashMap::new
EmptyMap == [n \in {} |-> 0]

\* Dir::new
DirNew == [items |-> EmptyMap]

EntryFile(f) == [tag |-> "File", file |-> f]

EntryDir(d) == [tag |-> "Dir", dir |-> d]

\* HashMap::contains_key
ContainsKey(m, k) == k \in DOMAIN m

\* HashMap::insert: the value under k is set, replacing any previous one
Insert(m, k, v) == [x \in (DOMAIN m) \cup {k} |-> IF x = k THEN v ELSE m[x]]

(***************************************************************************)
(* The mutation API.  Each returns the io::Result and the Dir afterwards.  *)
(***************************************************************************)
\* mutant: the insert is not guarded by contains_key
AddFileOverwrite(d, name, file) ==
    [res |-> Ok, dir |-> [items |-> Insert(d.items, name, EntryFile(file))]]

\* mutant: Ok is returned for a free name without inserting
AddFileNoInsert(d, name, file) ==
    IF ContainsKey(d.items, name)
    THEN [res |-> Err("AlreadyExists"), dir |-> d]
    ELSE [res |-> Ok, dir |-> d]

AddFile(d, name, file) ==
    IF ContainsKey(d.items, name)
    THEN [res |-> Err("AlreadyExists"), dir |-> d]
    ELSE [res |-> Ok, dir |-> [items |-> Insert(d.items, name, EntryFile(file))]]

\* mutant: a colliding add_dir replaces the existing entry, then reports it
AddDirReplace(d, name, child) ==
    IF ContainsKey(d.items, name)
    THEN [res |-> Err("AlreadyExists"),
          dir |-> [items |-> Insert(d.items, name, EntryDir(child))]]
    ELSE [res |-> Ok, dir |-> [items |-> Insert(d.items, name, EntryDir(child))]]

AddDir(d, name, child) ==
    IF ContainsKey(d.items, name)
    THEN [res |-> Err("AlreadyExists"), dir |-> d]
    ELSE [res |-> Ok, dir |-> [items |-> Insert(d.items, name, EntryDir(child))]]

\* Dir::entries: the (name, Entry) pairs the iterator yields, in some order
Entries(d) == { <<n, d.items[n]>> : n \in DOMAIN d.items }

(***************************************************************************)
(* Paths.  A Path is a string; the filesystem keys its objects by the      *)
(* resolved path: the sequence of components from the root.                *)
(***************************************************************************)
IsAbsolute(s) == s # <<>> /\ s[1] = SEP

\* Path::join (PathBuf::push): an absolute argument replaces the path,
\* otherwise it is appended after a separator (added unless one ends the path)
Join(path, name) ==
    IF IsAbsolute(name) THEN name
    ELSE IF path = <<>> \/ path[Len(path)] = SEP THEN path \o name
    ELSE path \o <<SEP>> \o name

RECURSIVE SplitAcc(_, _, _)
SplitAcc(s, cur, acc) ==
    IF s = <<>> THEN (IF cur = <<>> THEN acc ELSE Append(acc, cur))
    ELSE IF Head(s) = SEP
         THEN SplitAcc(Tail(s), <<>>, IF cur = <<>> THEN acc ELSE Append(acc, cur))
         ELSE SplitAcc(Tail(s), Append(cur, Head(s)), acc)

\* the components of a path string; empty components (a leading, doubled or
\* trailing separator) are dropped, as path resolution does
Split(s) == SplitAcc(s, <<>>, <<>>)

Root == <<>>

Parent(p) == IF p = Root THEN Root ELSE SubSeq(p, 1, Len(p) - 1)

IsPrefix(p, q) == Len(p) <= Len(q) /\ SubSeq(q, 1, Len(p)) = p

(***************************************************************************)
(* The filesystem: resolved path -> object.  An object is a directory, a   *)
(* regular file with its bytes, or another kind of object (a socket).      *)
(* perm = FALSE is a file whose mode lets nobody open it.                  *)
(***************************************************************************)
DirNode == [kind |-> "dir", bytes |-> <<>>, perm |-> TRUE]

FileNode(b) == [kind |-> "file", bytes |-> b, perm |-> TRUE]

LockedFileNode(b) == [kind |-> "file", bytes |-> b, perm |-> FALSE]

OtherNode == [kind |-> "other", bytes |-> <<>>, perm |-> TRUE]

\* the children of directory p
Children(f, p) == { q \in DOMAIN f : Len(q) = Len(p) + 1 /\ IsPrefix(p, q) }

\* Path resolution from the directory cur: every component but the last must
\* lead to an existing directory; "." stays, ".." goes to the parent.  The
\* result names the resolved path, which may or may not exist.
RECURSIVE Walk(_, _, _)
Walk(f, cur, comps) ==
    IF comps = <<>> THEN [err |-> "none", path |-> cur]
    ELSE IF f[cur].kind # "dir" THEN [err |-> "NotADirectory", path |-> cur]
    ELSE LET c == Head(comps)
             rest == Tail(comps)
         IN  IF c = <<".">> THEN Walk(f, cur, rest)
             ELSE IF c = <<".", ".">> THEN Walk(f, Parent(cur), rest)
             ELSE IF rest = <<>> THEN [err |-> "none", path |-> Append(cur, c)]
             ELSE IF Append(cur, c) \notin DOMAIN f
                  THEN [err |-> "NotFound", path |-> Append(cur, c)]
                  ELSE Walk(f, Append(cur, c), rest)

Resolve(f, path) ==
    IF path = <<>> THEN [err |-> "NotFound", path |-> Root]
    ELSE Walk(f, Root, Split(path))

\* mutant: create_dir_all semantics, an existing directory is accepted
FsCreateDirAll(f, path) ==
    LET r == Resolve(f, path)
    IN  IF r.err # "none" THEN [res |-> Err(r.err), fs |-> f, at |-> r.path]
        ELSE IF r.path \in DOMAIN f
             THEN IF f[r.path].kind = "dir"
                  THEN [res |-> Ok, fs |-> f, at |-> r.path]
                  ELSE [res |-> Err("AlreadyExists"), fs |-> f, at |-> r.path]
             ELSE [res |-> Ok, fs |-> (r.path :> DirNode) @@ f, at |-> r.path]

\* fs::create_dir (mkdir): fails when anything exists at the path
FsCreateDir(f, path) ==
    LET r == Resolve(f, path)
    IN  IF r.err # "none" THEN [res |-> Err(r.err), fs |-> f, at |-> r.path]
        ELSE IF r.path \in DOMAIN f
             THEN [res |-> Err("AlreadyExists"), fs |-> f, at |-> r.path]
             ELSE [res |-> Ok, fs |-> (r.path :> DirNode) @@ f, at |-> r.path]

\* mutant: the file is opened for writing without truncation
FsCreateNoTruncate(f, path) ==
    LET r == Resolve(f, path)
    IN  IF r.err # "none" THEN [res |-> Err(r.err), fs |-> f, at |-> r.path]
        ELSE IF r.path \notin DOMAIN f
             THEN [res |-> Ok, fs |-> (r.path :> FileNode(<<>>)) @@ f, at |-> r.path]
        ELSE IF f[r.path].kind = "dir"
             THEN [res |-> Err("IsADirectory"), fs |-> f, at |-> r.path]
        ELSE IF f[r.path].kind = "other"
             THEN [res |-> Err("Other"), fs |-> f, at |-> r.path]
        ELSE IF ~f[r.path].perm
             THEN [res |-> Err("PermissionDenied"), fs |-> f, at |-> r.path]
        ELSE [res |-> Ok, fs |-> f, at |-> r.path]

\* fs::File::create (open for writing, create, truncate)
FsCreate(f, path) ==
    LET r == Resolve(f, path)
    IN  IF r.err # "none" THEN [res |-> Err(r.err), fs |-> f, at |-> r.path]
        ELSE IF r.path \notin DOMAIN f
             THEN [res |-> Ok, fs |-> (r.path :> FileNode(<<>>)) @@ f, at |-> r.path]
        ELSE IF f[r.path].kind = "dir"
             THEN [res |-> Err("IsADirectory"), fs |-> f, at |-> r.path]
        ELSE IF f[r.path].kind = "other"
             THEN [res |-> Err("Other"), fs |-> f, at |-> r.path]
        ELSE IF ~f[r.path].perm
             THEN [res |-> Err("PermissionDenied"), fs |-> f, at |-> r.path]
        ELSE [res |-> Ok, fs |-> [f EXCEPT ![r.path].bytes = <<>>], at |-> r.path]

\* Write::write_all on the handle just opened: the bytes go in at offset 0,
\* over whatever the file holds there; bytes beyond them are kept
FsWriteAll(f, at, bytes) ==
    LET old == f[at].bytes
        kept == IF Len(old) > Len(bytes)
                THEN SubSeq(old, Len(bytes) + 1, Len(old)) ELSE <<>>
    IN  [f EXCEPT ![at].bytes = bytes \o kept]

\* fs::read_dir: the names of the directory's children
FsReadDir(f, path) ==
    LET r == Resolve(f, path)
    IN  IF r.err # "none" THEN [res |-> Err(r.err), names |-> {}, at |-> r.path]
        ELSE IF r.path \notin DOMAIN f
             THEN [res |-> Err("NotFound"), names |-> {}, at |-> r.path]
        ELSE IF f[r.path].kind # "dir"
             THEN [res |-> Err("NotADirectory"), names |-> {}, at |-> r.path]
        ELSE [res |-> Ok, at |-> r.path,
              names |-> { q[Len(q)] : q \in Children(f, r.path) }]

\* fs::File::open followed by read_to_end
FsReadFile(f, path) ==
    LET r == Resolve(f, path)
    IN  IF r.err # "none" THEN [res |-> Err(r.err), bytes |-> <<>>]
        ELSE IF r.path \notin DOMAIN f THEN [res |-> Err("NotFound"), bytes |-> <<>>]
        ELSE IF f[r.path].kind = "dir" THEN [res |-> Err("IsADirectory"), bytes |-> <<>>]
        ELSE IF f[r.path].kind = "other" THEN [res |-> Err("Other"), bytes |-> <<>>]
        ELSE IF ~f[r.path].perm THEN [res |-> Err("PermissionDenied"), bytes |-> <<>>]
        ELSE [res |-> Ok, bytes |-> f[r.path].bytes]

(***************************************************************************)
(* Dump.  A dump threads the filesystem and a record of the filesystem     *)
(* calls it made; the HashMap's iteration order is unspecified, so a dump  *)
(* has a set of possible outcomes, one per order.                          *)
(***************************************************************************)
Call(name, c, bytes) ==
    [call |-> name, at |-> c.at, res |-> c.res, bytes |-> bytes]

\* File::dump
FileDump(file, path, f, lg) ==
    LET c == FsCreate(f, path)
        lg1 == Append(lg, Call("create", c, file.bytes))
    IN  IF ~c.res.ok THEN [res |-> c.res, fs |-> f, log |-> lg1]
        ELSE [res |-> Ok, fs |-> FsWriteAll(c.fs, c.at, file.bytes), log |-> lg1]

RECURSIVE DirDump(_, _, _, _)
RECURSIVE DumpLoop(_, _, _, _, _)

\* Entry::dump
EntryDump(e, path, f, lg) ==
    IF e.tag = "File" THEN { FileDump(e.file, path, f, lg) }
    ELSE DirDump(e.dir, path, f, lg)

\* mutant: a failing child is skipped and the remaining children are dumped
RECURSIVE DumpLoopKeepGoing(_, _, _, _, _)
DumpLoopKeepGoing(d, todo, path, f, lg) ==
    IF todo = {} THEN { [res |-> Ok, fs |-> f, log |-> lg] }
    ELSE UNION { UNION { DumpLoopKeepGoing(d, todo \ {n}, path, o.fs, o.log)
                         : o \in EntryDump(d.items[n], Join(path, n), f, lg) }
                 : n \in todo }

\* the for loop of Dir::dump over the entries not yet visited
DumpLoop(d, todo, path, f, lg) ==
    IF todo = {} THEN { [res |-> Ok, fs |-> f, log |-> lg] }
    ELSE UNION { UNION { IF o.res.ok
                         THEN DumpLoop(d, todo \ {n}, path, o.fs, o.log)
                         ELSE { o }
                         : o \in EntryDump(d.items[n], Join(path, n), f, lg) }
                 : n \in todo }

\* Dir::dump
DirDump(d, path, f, lg) ==
    LET c == FsCreateDir(f, path)
        lg1 == Append(lg, Call("create_dir", c, <<>>))
    IN  IF ~c.res.ok THEN { [res |-> c.res, fs |-> f, log |-> lg1] }
        ELSE DumpLoop(d, DOMAIN d.items, path, c.fs, lg1)

(***************************************************************************)
(* Load.  read_dir yields the children in an unspecified order, so a load  *)
(* too has a set of possible outcomes.  An outcome is the io::Result and   *)
(* the value it carries: <<dir>> when Ok, <<>> when Err.                   *)
(***************************************************************************)
\* File::load
FileLoad(f, path) ==
    LET r == FsReadFile(f, path)
    IN  IF ~r.res.ok THEN [res |-> r.res, file |-> FileNew(<<>>)]
        ELSE [res |-> Ok, file |-> FileNew(r.bytes)]

RECURSIVE DirLoad(_, _)
RECURSIVE LoadLoop(_, _, _, _, _)

\* DirEntry::file_type of the child n of the directory at resolved path at
FileType(f, at, n) == f[Append(at, n)].kind

\* mutant: a child that is neither file nor directory is skipped
RECURSIVE LoadLoopSkipOther(_, _, _, _, _)
LoadLoopSkipOther(f, path, at, todo, d) ==
    IF todo = {} THEN { [res |-> Ok, val |-> <<d>>] }
    ELSE UNION {
        IF FileType(f, at, n) = "dir"
        THEN UNION { IF ~s.res.ok THEN { [res |-> s.res, val |-> <<>>] }
                     ELSE LoadLoopSkipOther(f, path, at, todo \ {n},
                              [items |-> Insert(d.items, n, EntryDir(s.val[1]))])
                     : s \in DirLoad(f, Join(path, n)) }
        ELSE IF FileType(f, at, n) = "file"
        THEN LET r == FileLoad(f, Join(path, n))
             IN  IF ~r.res.ok THEN { [res |-> r.res, val |-> <<>>] }
                 ELSE LoadLoopSkipOther(f, path, at, todo \ {n},
                          [items |-> Insert(d.items, n, EntryFile(r.file))])
        ELSE LoadLoopSkipOther(f, path, at, todo \ {n}, d)
        : n \in todo }

\* mutant: subdirectories are not descended into and not stored
RECURSIVE LoadLoopSkipDirs(_, _, _, _, _)
LoadLoopSkipDirs(f, path, at, todo, d) ==
    IF todo = {} THEN { [res |-> Ok, val |-> <<d>>] }
    ELSE UNION {
        IF FileType(f, at, n) = "dir"
        THEN LoadLoopSkipDirs(f, path, at, todo \ {n}, d)
        ELSE IF FileType(f, at, n) = "file"
        THEN LET r == FileLoad(f, Join(path, n))
             IN  IF ~r.res.ok THEN { [res |-> r.res, val |-> <<>>] }
                 ELSE LoadLoopSkipDirs(f, path, at, todo \ {n},
                          [items |-> Insert(d.items, n, EntryFile(r.file))])
        ELSE { [res |-> Err("Other"), val |-> <<>>] }
        : n \in todo }

\* the for loop of Dir::load over the children not yet visited
LoadLoop(f, path, at, todo, d) ==
    IF todo = {} THEN { [res |-> Ok, val |-> <<d>>] }
    ELSE UNION {
        IF FileType(f, at, n) = "dir"
        THEN UNION { IF ~s.res.ok THEN { [res |-> s.res, val |-> <<>>] }
                     ELSE LoadLoop(f, path, at, todo \ {n},
                              [items |-> Insert(d.items, n, EntryDir(s.val[1]))])
                     : s \in DirLoad(f, Join(path, n)) }
        ELSE IF FileType(f, at, n) = "file"
        THEN LET r == FileLoad(f, Join(path, n))
             IN  IF ~r.res.ok THEN { [res |-> r.res, val |-> <<>>] }
                 ELSE LoadLoop(f, path, at, todo \ {n},
                          [items |-> Insert(d.items, n, EntryFile(r.file))])
        ELSE { [res |-> Err("Other"), val |-> <<>>] }
        : n \in todo }

\* Dir::load
DirLoad(f, path) ==
    LET rd == FsReadDir(f, path)
    IN  IF ~rd.res.ok THEN { [res |-> rd.res, val |-> <<>>] }
        ELSE LoadLoop(f, path, rd.at, rd.names, DirNew)

(***************************************************************************)
(* The filesystem the program starts on, and the paths it is called with.  *)
(***************************************************************************)
\*   /f        regular file, bytes 1 2
\*   /o        socket
\*   /d        directory:  /d/a file,  /d/s directory:  /d/s/b file
\*   /n        directory:  /n/p file nobody may open,
\*                         /n/k directory:  /n/k/o socket
InitFs ==
    (Root :> DirNode)
    @@ (<< <<"f">> >> :> FileNode(<<1, 2>>))
    @@ (<< <<"o">> >> :> OtherNode)
    @@ (<< <<"d">> >> :> DirNode)
    @@ (<< <<"d">>, <<"a">> >> :> FileNode(<<3>>))
    @@ (<< <<"d">>, <<"s">> >> :> DirNode)
    @@ (<< <<"d">>, <<"s">>, <<"b">> >> :> FileNode(<<1, 2>>))
    @@ (<< <<"n">> >> :> DirNode)
    @@ (<< <<"n">>, <<"p">> >> :> LockedFileNode(<<3>>))
    @@ (<< <<"n">>, <<"k">> >> :> DirNode)
    @@ (<< <<"n">>, <<"k">>, <<"o">> >> :> OtherNode)

\* targets of Dir::dump: a free path, and paths held by a file, a directory
\* and a socket
DumpPaths == { <<"/", "t">>, <<"/", "f">>, <<"/", "d">>, <<"/", "o">> }

\* targets of File::dump: an existing file, a free path, a directory
FileDumpPaths == { <<"/", "f">>, <<"/", "g">>, <<"/", "d">> }

\* Dir values handed to add_dir: an empty one, one holding a file, one
\* holding an empty directory
ChildDirs ==
    { DirNew,
      AddFile(DirNew, <<"b">>, FileNew(<<3>>)).dir,
      AddDir(DirNew, <<"a">>, DirNew).dir }

\* the Dir values that at most k add_file / add_dir calls build from Dir::new()
RECURSIVE Built(_)
Built(k) ==
    IF k = 0 THEN { DirNew }
    ELSE LET B == Built(k - 1)
         IN  B \cup { AddFile(d, n, FileNew(b)).dir :
                        d \in B, n \in Names, b \in Contents }
               \cup { AddDir(d, n, c).dir : d \in B, n \in Names, c \in ChildDirs }

\* directories handed to Dir::load
LoadPaths == { <<"/", "t">>, <<"/", "d">>, <<"/", "n">>, <<"/", "n", "/", "k">> }

NoDump == [valid |-> FALSE, path |-> <<>>, dir |-> DirNew]

(***************************************************************************)
(* The state machine.                                                      *)
(*   dir        the Dir value the caller owns                              *)
(*   nOk        the add_file / add_dir calls on dir that returned Ok       *)
(*   nAdds      the add_file / add_dir calls made;  nDumps  the dump calls *)
(*   fs         the filesystem;  pre  the filesystem before the last dump  *)
(*   log        the filesystem calls of the last dump                      *)
(*   dumped     the last Dir::dump that returned Ok, while the filesystem  *)
(*              is as it left it                                           *)
(*   ret        the last call and what it returned                         *)
(***************************************************************************)
Init ==
    /\ dir = DirNew
    /\ nOk = 0
    /\ nAdds = 0
    /\ nDumps = 0
    /\ fs = InitFs
    /\ pre = InitFs
    /\ log = <<>>
    /\ dumped = NoDump
    /\ ret = [op |-> "new"]

\* the caller has built dir by add_file / add_dir calls that all returned Ok
InitBuilt ==
    /\ dir \in Built(MaxCalls)
    /\ nOk = Cardinality(DOMAIN dir.items)
    /\ nAdds = Cardinality(DOMAIN dir.items)
    /\ nDumps = 0
    /\ fs = InitFs
    /\ pre = InitFs
    /\ log = <<>>
    /\ dumped = NoDump
    /\ ret = [op |-> "new"]

\* dir.add_file(name, File::new(bytes))
DoAddFile(name, bytes) ==
    /\ nAdds + nDumps < MaxCalls
    /\ LET r == AddFile(dir, name, FileNew(bytes))
       IN  /\ dir' = r.dir
           /\ nOk' = nOk + (IF r.res.ok THEN 1 ELSE 0)
           /\ ret' = [op |-> "add_file", name |-> name, res |-> r.res]
    /\ nAdds' = nAdds + 1
    /\ UNCHANGED <<nDumps, fs, pre, log, dumped>>

\* dir.add_dir(name, child)
DoAddDir(name, child) ==
    /\ nAdds + nDumps < MaxCalls
    /\ LET r == AddDir(dir, name, child)
       IN  /\ dir' = r.dir
           /\ nOk' = nOk + (IF r.res.ok THEN 1 ELSE 0)
           /\ ret' = [op |-> "add_dir", name |-> name, res |-> r.res]
    /\ nAdds' = nAdds + 1
    /\ UNCHANGED <<nDumps, fs, pre, log, dumped>>

\* dir.entries(), iterated to the end
DoEntries ==
    /\ ret' = [op |-> "entries", seen |-> Entries(dir)]
    /\ UNCHANGED <<dir, nOk, nAdds, nDumps, fs, pre, log, dumped>>

\* dir.dump(path)
DoDirDump(path) ==
    /\ nAdds + nDumps < MaxCalls
    /\ ret.op # "load"
    /\ \E o \in DirDump(dir, path, fs, <<>>) :
          /\ fs' = o.fs
          /\ log' = o.log
          /\ ret' = [op |-> "dump", path |-> path, res |-> o.res]
          /\ dumped' = IF o.res.ok
                       THEN [valid |-> TRUE, path |-> path, dir |-> dir]
                       ELSE IF o.fs = fs THEN dumped ELSE NoDump
    /\ pre' = fs
    /\ nDumps' = nDumps + 1
    /\ UNCHANGED <<dir, nOk, nAdds>>

\* File::new(bytes).dump(path)
DoFileDump(path, bytes) ==
    /\ nAdds + nDumps < MaxCalls
    /\ ret.op # "load"
    /\ LET o == FileDump(FileNew(bytes), path, fs, <<>>)
       IN  /\ fs' = o.fs
           /\ log' = o.log
           /\ ret' = [op |-> "file_dump", path |-> path, bytes |-> bytes,
                      res |-> o.res]
           /\ dumped' = IF o.fs = fs THEN dumped ELSE NoDump
    /\ pre' = fs
    /\ nDumps' = nDumps + 1
    /\ UNCHANGED <<dir, nOk, nAdds>>

\* Dir::load(path)
DoDirLoad(path) ==
    /\ ret.op # "load"
    /\ \E o \in DirLoad(fs, path) :
          ret' = [op |-> "load", path |-> path, res |-> o.res, val |-> o.val]
    /\ UNCHANGED <<dir, nOk, nAdds, nDumps, fs, pre, log, dumped>>

\* The in-memory API, with dumps of the Dir in between
NextApi ==
    \/ \E name \in Names, bytes \in Contents : DoAddFile(name, bytes)
    \/ \E name \in Names, child \in ChildDirs : DoAddDir(name, child)
    \/ DoEntries
    \/ \E path \in DumpPaths : DoDirDump(path)

SpecApi == Init /\ [][NextApi]_vars

\* Dumps and loads of a Dir that has been built.  A load is the last call of
\* a behaviour: it changes nothing but ret, which no call reads, so the calls
\* that could follow it are those that follow the state it was made in.
NextDisk ==
    \/ \E path \in DumpPaths : DoDirDump(path)
    \/ \E path \in FileDumpPaths, bytes \in Contents : DoFileDump(path, bytes)
    \/ \E path \in LoadPaths : DoDirLoad(path)

SpecDisk == InitBuilt /\ [][NextDisk]_vars

(***************************************************************************)
(* Properties of the in-memory API (SpecApi).                              *)
(***************************************************************************)
IsAdd(r) == r.op \in {"add_file", "add_dir"}

\* C2 Duplicate rejection: an add_file or add_dir call whose name is already
\* held by an entry of the Dir (a File or a Dir) returns AlreadyExists, and
\* the Dir after the call equals the Dir before it.
DuplicateRejection ==
    [][ (nAdds' = nAdds + 1 /\ IsAdd(ret') /\ ContainsKey(dir.items, ret'.name))
        => (ret'.res = Err("AlreadyExists") /\ dir' = dir) ]_vars

\* an add_dir was rejected on a name held by a File, and an entry besides it
\* is present
DuplicateRejectionWitness ==
    /\ ret.op = "add_dir"
    /\ ret.res = Err("AlreadyExists")
    /\ ContainsKey(dir.items, ret.name)
    /\ dir.items[ret.name].tag = "File"
    /\ Cardinality(DOMAIN dir.items) = 2

\* C6 Name uniqueness: no two entries the Dir yields share a name, and the
\* Dir holds as many entries as add_file / add_dir calls on it returned Ok.
NameUniqueness ==
    /\ \A e1 \in Entries(dir), e2 \in Entries(dir) : e1[1] = e2[1] => e1 = e2
    /\ Cardinality(Entries(dir)) = nOk
    /\ Cardinality(DOMAIN dir.items) = nOk

\* three calls were made, one of them rejected
NameUniquenessWitness ==
    /\ nAdds = 3
    /\ nOk = 2
    /\ Cardinality(DOMAIN dir.items) = 2

\* C9 Monotonic growth: every name keeps the entry it maps to; the names
\* change only in an add_file / add_dir call that returns Ok, and then by
\* exactly the one new name; entries() and dump leave the Dir as it is.
MonotonicGrowth ==
    [][ /\ \A n \in DOMAIN dir.items :
              n \in DOMAIN dir'.items /\ dir'.items[n] = dir.items[n]
        /\ (IsAdd(ret') /\ nAdds' = nAdds + 1 /\ ret'.res.ok)
              => /\ ret'.name \notin DOMAIN dir.items
                 /\ DOMAIN dir'.items = (DOMAIN dir.items) \cup {ret'.name}
        /\ ~(IsAdd(ret') /\ nAdds' = nAdds + 1 /\ ret'.res.ok)
              => dir' = dir
        /\ ret'.op \in {"entries", "dump"} => dir' = dir ]_vars

\* an add returned Ok after a dump that wrote the Dir, with an older entry
\* still in place
MonotonicGrowthWitness ==
    /\ IsAdd(ret)
    /\ ret.res.ok
    /\ nDumps = 1
    /\ dumped.valid
    /\ DOMAIN dumped.dir.items # {}
    /\ Cardinality(DOMAIN dir.items) = 2

(***************************************************************************)
(* Properties of dump and load (SpecDisk).                                 *)
(***************************************************************************)
\* the resolved path the last call was made on, in the filesystem before it
Target == Resolve(pre, ret.path).path

\* the last successful write to resolved path q among the calls of the log
LastWrite(q) ==
    LET is == { i \in 1..Len(log) :
                  log[i].call = "create" /\ log[i].res.ok /\ log[i].at = q }
    IN  log[CHOOSE i \in is : \A j \in is : j <= i].bytes

\* C1 Round-trip identity: after a Dir::dump of the Dir to a path returned
\* Ok, Dir::load of that path returns Ok with a Dir equal to the one dumped.
RoundTripIdentity ==
    (ret.op = "load" /\ dumped.valid /\ ret.path = dumped.path)
        => (ret.res.ok /\ ret.val = <<dumped.dir>>)

\* C3 Dump onto an existing object: a Dir::dump whose path is held by any
\* object fails with AlreadyExists at its create_dir, makes no other
\* filesystem call, and leaves the filesystem as it was.
DumpOntoExistingFails ==
    (ret.op = "dump" /\ Target \in DOMAIN pre)
        => /\ ret.res = Err("AlreadyExists")
           /\ fs = pre
           /\ Len(log) = 1
           /\ log[1].call = "create_dir"

\* a Dir with entries was dumped a second time onto the directory its
\* first dump made
DumpOntoExistingWitness ==
    /\ ret.op = "dump"
    /\ nDumps = 2
    /\ Target \in DOMAIN pre
    /\ Children(pre, Target) # {}
    /\ DOMAIN dir.items # {}
    /\ ~ret.res.ok

\* the subtree below resolved path p holds an object that is neither a
\* regular file nor a directory
HasOther(f, p) ==
    \E q \in DOMAIN f : q # p /\ IsPrefix(p, q) /\ f[q].kind = "other"

\* the subtree below resolved path p holds a file that cannot be opened
HasLocked(f, p) ==
    \E q \in DOMAIN f : q # p /\ IsPrefix(p, q) /\ f[q].kind = "file" /\ ~f[q].perm

\* C4 as stated: a load of a directory whose subtree holds an unsupported
\* entry returns the unsupported-entry error (ErrorKind::Other) and no Dir.
UnsupportedAlwaysOther ==
    (ret.op = "load" /\ Resolve(fs, ret.path).path \in DOMAIN fs
        /\ HasOther(fs, Resolve(fs, ret.path).path))
        => (ret.res = Err("Other") /\ ret.val = <<>>)

\* C4 Unsupported entries abort the load: a load of a directory whose
\* subtree holds an unsupported entry returns an error and no Dir; the error
\* is ErrorKind::Other unless the failure to open a file met earlier in the
\* walk is returned instead.
UnsupportedAbortsLoad ==
    (ret.op = "load" /\ Resolve(fs, ret.path).path \in DOMAIN fs
        /\ HasOther(fs, Resolve(fs, ret.path).path))
        => /\ ~ret.res.ok
           /\ ret.val = <<>>
           /\ \/ ret.res.kind = "Other"
              \/ /\ ret.res.kind = "PermissionDenied"
                 /\ HasLocked(fs, Resolve(fs, ret.path).path)

\* the load of /n returned the error of the nested load of /n/k
UnsupportedAbortsLoadWitness ==
    /\ ret.op = "load"
    /\ ret.path = <<"/", "n">>
    /\ ret.res = Err("Other")
    /\ ret.val = <<>>
    /\ HasOther(fs, << <<"n">> >>)
    /\ \A q \in Children(fs, << <<"n">> >>) : fs[q].kind # "other"

\* the Dir d holds one entry per child of the directory at resolved path p,
\* of the child's kind, and so on below
RECURSIVE Mirrors(_, _)
Mirrors(d, p) ==
    /\ Cardinality(DOMAIN d.items) = Cardinality(Children(fs, p))
    /\ DOMAIN d.items = { q[Len(q)] : q \in Children(fs, p) }
    /\ \A n \in DOMAIN d.items :
          \/ fs[Append(p, n)].kind = "file" /\ d.items[n].tag = "File"
          \/ /\ fs[Append(p, n)].kind = "dir"
             /\ d.items[n].tag = "Dir"
             /\ Mirrors(d.items[n].dir, Append(p, n))

\* C5 Count preservation: a load that returns Ok returns a Dir with exactly
\* one entry per child of the directory, named as the child, a File for a
\* regular file and a Dir for a directory, and the same below every Dir.
CountPreservation ==
    (ret.op = "load" /\ ret.res.ok)
        => Mirrors(ret.val[1], Resolve(fs, ret.path).path)

\* a directory with two children, one a directory with a child, was loaded
CountPreservationWitness ==
    /\ ret.op = "load"
    /\ ret.res.ok
    /\ Cardinality(DOMAIN ret.val[1].items) = 2
    /\ \E n \in DOMAIN ret.val[1].items :
          /\ ret.val[1].items[n].tag = "Dir"
          /\ DOMAIN ret.val[1].items[n].dir.items # {}

\* C7 Dump is fail-fast with no rollback: only the last filesystem call of
\* a dump can have failed, and the dump returns that call's result; every
\* directory made and every file written before it is still on disk, a file
\* with the bytes last written to it.
FailFastNoRollback ==
    ret.op = "dump"
        => /\ Len(log) >= 1
           /\ \A i \in 1..(Len(log) - 1) : log[i].res.ok
           /\ ret.res = log[Len(log)].res
           /\ \A i \in 1..Len(log) :
                 log[i].res.ok
                    => /\ log[i].at \in DOMAIN fs
                       /\ log[i].call = "create_dir" => fs[log[i].at].kind = "dir"
                       /\ log[i].call = "create"
                             => /\ fs[log[i].at].kind = "file"
                                /\ fs[log[i].at].bytes = LastWrite(log[i].at)

\* the directory was made, one child was written, the next child failed
FailFastNoRollbackWitness ==
    /\ ret.op = "dump"
    /\ ~ret.res.ok
    /\ Len(log) = 3
    /\ log[1].call = "create_dir" /\ log[1].res.ok
    /\ log[2].call = "create" /\ log[2].res.ok
    /\ ~log[3].res.ok
    /\ log[2].at \in DOMAIN fs
    /\ Target \in DOMAIN fs

\* C8 File::dump creates or truncates: after a File::dump that returned Ok
\* the path holds a regular file whose bytes are exactly the File's.
FileDumpCreatesOrTruncates ==
    (ret.op = "file_dump" /\ ret.res.ok)
        => /\ Target \in DOMAIN fs
           /\ fs[Target].kind = "file"
           /\ fs[Target].bytes = ret.bytes

\* a file holding more bytes than the File was overwritten
FileDumpTruncatesWitness ==
    /\ ret.op = "file_dump"
    /\ ret.res.ok
    /\ Target \in DOMAIN pre
    /\ pre[Target].kind = "file"
    /\ Len(pre[Target].bytes) > Len(ret.bytes)

\* C10 Dump containment: a Dir::dump leaves every object that existed
\* before it as it was, and every object it makes lies at or below its path.
DumpContainment ==
    ret.op = "dump"
        => /\ \A q \in DOMAIN pre : q \in DOMAIN fs /\ fs[q] = pre[q]
           /\ \A q \in (DOMAIN fs) \ (DOMAIN pre) : IsPrefix(Target, q)

(***************************************************************************)
(* The same two properties for a Dir whose names, at every level, are      *)
(* plain single components: both hold under SpecDisk.                      *)
(***************************************************************************)
RECURSIVE AllPlain(_)
AllPlain(d) ==
    \A n \in DOMAIN d.items :
        /\ n \in PlainNames
        /\ d.items[n].tag = "Dir" => AllPlain(d.items[n].dir)

\* round trip of a Dir with plain names
RoundTripPlainNames ==
    (ret.op = "load" /\ dumped.valid /\ ret.path = dumped.path
        /\ AllPlain(dumped.dir))
        => (ret.res.ok /\ ret.val = <<dumped.dir>>)

\* containment of the dump of a Dir with plain names
ContainmentPlainNames ==
    (ret.op = "dump" /\ AllPlain(dir))
        => /\ \A q \in DOMAIN pre : q \in DOMAIN fs /\ fs[q] = pre[q]
           /\ \A q \in (DOMAIN fs) \ (DOMAIN pre) : IsPrefix(Target, q)

====
